---- MODULE Spec2Model ----
(***************************************************************************)
(* Model of scripts/generate.py: the ranking and selection function        *)
(* rank_items (scoring loop, stable sort, per-source capped first pass,    *)
(* backfill pass, final slice).                                            *)
(*                                                                         *)
(* Python strings are modelled as sequences of tokens (a token is a short  *)
(* run of characters), so that concatenation, lower-casing, substring      *)
(* tests and URL parsing are computed rather than assumed.  The empty      *)
(* string is <<>>.  Scores are kept in tenths (an integer), so that the    *)
(* factor 0.7 is the integer 7 and an unpenalised point is 10.             *)
(***************************************************************************)
EXTENDS Integers, Sequences, FiniteSets, TLC

\* ---------------------------------------------------------------- bounds
MaxItems == 5        \* longest input sequence built from ItemPool
MaxLimit == 5        \* largest limit passed to rank_items
MaxNegLimit == 1     \* limits range over -MaxNegLimit .. MaxLimit
MaxTitle == 2        \* longest title (in tokens) of a single-item input
MaxSummary == 1      \* longest summary (in tokens) of a single-item input
MaxLines == 3        \* most body lines of an LLM draft
MaxFeeds == 2        \* most feeds in sources.yml

\* ------------------------------------------------------ program constants
Cap == 3             \* "if current_count < 3"
ArxivFactor == 7     \* "score * 0.7", in tenths
ScoreUnit == 10      \* one unpenalised point, in tenths
AvoidWeight == 2     \* "avoid_penalty * 2"

\* --------------------------------------------------------- string helpers
Max(a, b) == IF a >= b THEN a ELSE b
Min(a, b) == IF a <= b THEN a ELSE b

\* Python "k in t" for strings: k occurs as a contiguous run of t.
IsSubstr(k, t) ==
    \E i \in 0..(Len(t) - Len(k)) : SubSeq(t, i + 1, i + Len(k)) = k

\* str.lower(), token by token.
LowerTok(c) == IF c = "LC" THEN "lc" ELSE c
Lower(t) == [i \in DOMAIN t |-> LowerTok(t[i])]

\* clean(): strip, then collapse whitespace runs into one blank.  IsClean(s)
\* holds of the strings clean() returns (its fixed points).
IsClean(s) ==
    /\ s # <<>> => (s[1] # " " /\ s[Len(s)] # " ")
    /\ \A i \in 1..(Len(s) - 1) : ~(s[i] = " " /\ s[i + 1] = " ")

\* The keyword tuples of rank_items, restricted to the keywords that can
\* occur in a text over TextTokens (no other keyword of the source tuples is
\* a substring of any such text).
KEYS == << <<"lc">>, <<"export">>, <<"export", " ", "lc">> >>
AVOID_KEYS == << <<"crypto">>, <<"crypto", "currency">> >>

\* sum(k in text for k in keys)
CountIn(keys, text) ==
    Cardinality({i \in DOMAIN keys : IsSubstr(keys[i], text)})

\* text = (it["title"] + " " + it["summary"]).lower()
Text(it) == Lower(it.title \o <<" ">> \o it.summary)

\* Variant: the penalty subtracted without the floor at 0.
ScoreNoFloor(it) ==
    LET text == Text(it)
        s1 == CountIn(KEYS, text)
        s2 == IF it.link # <<>> THEN s1 + 1 ELSE s1
        avoid_penalty == CountIn(AVOID_KEYS, text)
        s3 == s2 - (avoid_penalty * AvoidWeight)
    IN  IF IsSubstr(<<"arxiv.org">>, it.link)
        THEN s3 * ArxivFactor
        ELSE s3 * ScoreUnit

\* One iteration of the scoring loop: the score of one item, in tenths.
Score(it) ==
    LET text == Text(it)
        s1 == CountIn(KEYS, text)
        s2 == IF it.link # <<>> THEN s1 + 1 ELSE s1
        avoid_penalty == CountIn(AVOID_KEYS, text)
        s3 == Max(0, s2 - (avoid_penalty * AvoidWeight))
    IN  IF IsSubstr(<<"arxiv.org">>, it.link)
        THEN s3 * ArxivFactor
        ELSE s3 * ScoreUnit

\* Variant: the title is lower-cased in the item itself before it is stored.
ScoreAllLowering(its) ==
    [i \in DOMAIN its |->
        [score |-> Score(its[i]),
         item |-> [its[i] EXCEPT !.title = Lower(@)]]]

\* scored = [(score, it) for it in items], in input order.
ScoreAll(its) == [i \in DOMAIN its |-> [score |-> Score(its[i]), item |-> its[i]]]

\* ----------------------------------------------------------------- sorting
\* list.sort(key=score, reverse=True): stable, descending.  An element is
\* inserted behind every element whose score is at least its own.
\* Variant: ties broken the other way (an unstable sort).
RECURSIVE InsertDescStrict(_, _)
InsertDescStrict(sorted, e) ==
    IF sorted = <<>> THEN <<e>>
    ELSE IF Head(sorted).score > e.score
         THEN <<Head(sorted)>> \o InsertDescStrict(Tail(sorted), e)
         ELSE <<e>> \o sorted

\* Variant: ascending order (reverse=True forgotten).
RECURSIVE InsertAsc(_, _)
InsertAsc(sorted, e) ==
    IF sorted = <<>> THEN <<e>>
    ELSE IF Head(sorted).score <= e.score
         THEN <<Head(sorted)>> \o InsertAsc(Tail(sorted), e)
         ELSE <<e>> \o sorted

RECURSIVE InsertDesc(_, _)
InsertDesc(sorted, e) ==
    IF sorted = <<>> THEN <<e>>
    ELSE IF Head(sorted).score >= e.score
         THEN <<Head(sorted)>> \o InsertDesc(Tail(sorted), e)
         ELSE <<e>> \o sorted

RECURSIVE SortDesc(_, _)
SortDesc(sc, acc) ==
    IF sc = <<>> THEN acc
    ELSE SortDesc(Tail(sc), InsertDesc(acc, Head(sc)))

\* ------------------------------------------------------------ source of an item
PathTokens == {"/", "/1", "/2", "/3", "/4", "/5"}

RECURSIVE TakeHost(_)
TakeHost(s) ==
    IF s = <<>> \/ Head(s) \in PathTokens THEN <<>>
    ELSE <<Head(s)>> \o TakeHost(Tail(s))

\* urlparse(link).netloc: what follows "http://" up to the path.
Netloc(link) ==
    IF link # <<>> /\ Head(link) = "http://" THEN TakeHost(Tail(link)) ELSE <<>>

\* urlparse raises ValueError on an unbalanced bracket in the netloc.
UrlparseRaises(link) == \E i \in DOMAIN Netloc(link) : Netloc(link)[i] = "["

\* str.replace("www.", "")
RECURSIVE StripWww(_)
StripWww(s) ==
    IF s = <<>> THEN <<>>
    ELSE IF Head(s) = "www." THEN StripWww(Tail(s))
         ELSE <<Head(s)>> \o StripWww(Tail(s))

\* The source identifier the first pass counts under.
SourceOf(item) ==
    IF item.source = <<>> /\ item.link # <<>>
    THEN IF UrlparseRaises(item.link) THEN <<"unknown">>
         ELSE StripWww(Netloc(item.link))
    ELSE item.source

\* dict.get(source, 0)
GetCount(cnt, source) == IF source \in DOMAIN cnt THEN cnt[source] ELSE 0

\* ------------------------------------------------------------- first pass
\* The loop over scored: stop at limit, admit an item while its source has
\* fewer than Cap admitted items.
\* Variant: the loop without its "len(selected) >= limit" break.
RECURSIVE FirstPassLoopNoBreak(_, _, _, _)
FirstPassLoopNoBreak(sc, lim, sel, cnt) ==
    IF sc = <<>>
    THEN [selected |-> sel, source_count |-> cnt]
    ELSE LET item == Head(sc).item
             source == SourceOf(item)
             current_count == GetCount(cnt, source)
         IN  IF current_count < Cap
             THEN FirstPassLoopNoBreak(Tail(sc), lim, Append(sel, item),
                     [k \in (DOMAIN cnt) \cup {source} |->
                         IF k = source THEN current_count + 1 ELSE cnt[k]])
             ELSE FirstPassLoopNoBreak(Tail(sc), lim, sel, cnt)

\* Variant: the per-source test off by one ("<= 3").
RECURSIVE FirstPassLoopCapOff(_, _, _, _)
FirstPassLoopCapOff(sc, lim, sel, cnt) ==
    IF sc = <<>> \/ Len(sel) >= lim
    THEN [selected |-> sel, source_count |-> cnt]
    ELSE LET item == Head(sc).item
             source == SourceOf(item)
             current_count == GetCount(cnt, source)
         IN  IF current_count <= Cap
             THEN FirstPassLoopCapOff(Tail(sc), lim, Append(sel, item),
                     [k \in (DOMAIN cnt) \cup {source} |->
                         IF k = source THEN current_count + 1 ELSE cnt[k]])
             ELSE FirstPassLoopCapOff(Tail(sc), lim, sel, cnt)

RECURSIVE FirstPassLoop(_, _, _, _)
FirstPassLoop(sc, lim, sel, cnt) ==
    IF sc = <<>> \/ Len(sel) >= lim
    THEN [selected |-> sel, source_count |-> cnt]
    ELSE LET item == Head(sc).item
             source == SourceOf(item)
             current_count == GetCount(cnt, source)
         IN  IF current_count < Cap
             THEN FirstPassLoop(Tail(sc), lim, Append(sel, item),
                     [k \in (DOMAIN cnt) \cup {source} |->
                         IF k = source THEN current_count + 1 ELSE cnt[k]])
             ELSE FirstPassLoop(Tail(sc), lim, sel, cnt)

\* --------------------------------------------------------------- backfill
\* The second loop over scored: stop at limit, admit an item whose link is
\* not among the links already selected.
\* Variant: the loop ends at the first item whose link is already selected.
RECURSIVE BackfillLoopStops(_, _, _, _)
BackfillLoopStops(sc, lim, sel, links) ==
    IF sc = <<>> \/ Len(sel) >= lim
    THEN [selected |-> sel, links |-> links]
    ELSE LET item == Head(sc).item
         IN  IF item.link \notin links
             THEN BackfillLoopStops(Tail(sc), lim, Append(sel, item),
                                    links \cup {item.link})
             ELSE [selected |-> sel, links |-> links]

RECURSIVE BackfillLoop(_, _, _, _)
BackfillLoop(sc, lim, sel, links) ==
    IF sc = <<>> \/ Len(sel) >= lim
    THEN [selected |-> sel, links |-> links]
    ELSE LET item == Head(sc).item
         IN  IF item.link \notin links
             THEN BackfillLoop(Tail(sc), lim, Append(sel, item),
                               links \cup {item.link})
             ELSE BackfillLoop(Tail(sc), lim, sel, links)

\* selected[:limit], with Python's meaning of a negative bound.
Slice(s, lim) ==
    IF lim >= 0 THEN SubSeq(s, 1, Min(lim, Len(s)))
    ELSE SubSeq(s, 1, Max(0, Len(s) + lim))

\* ------------------------------------------------------------------ inputs
Range(s) == {s[i] : i \in DOMAIN s}

SeqsUpTo(S, n) == UNION {[1..k -> S] : k \in 0..n}

LinkA1 == <<"http://", "a.com", "/1">>
LinkA3 == <<"http://", "a.com", "/3">>
LinkA4 == <<"http://", "a.com", "/4">>
LinkA5 == <<"http://", "a.com", "/5">>
LinkWww == <<"http://", "www.", "a.com", "/2">>
LinkArxiv == <<"http://", "arxiv.org", "/1">>
LinkMention == <<"http://", "a.com", "/", "arxiv.org">>
LinkBad == <<"http://", "[", "/1">>

Item(src, ttl, lnk, summ) ==
    [source |-> src, title |-> ttl, link |-> lnk, summary |-> summ]

\* Items the multi-item inputs are built from: five items of feed A with
\* distinct links (one of them with a keyword and an arxiv.org link), one
\* without a source field that shares its link with an item of A, and one of
\* feed B without a link.
ItemPool ==
    { Item(<<"A">>, <<>>, LinkA1, <<>>),
      Item(<<"A">>, <<"LC">>, LinkArxiv, <<>>),
      Item(<<"A">>, <<>>, LinkA3, <<>>),
      Item(<<"A">>, <<>>, LinkA4, <<>>),
      Item(<<"A">>, <<>>, LinkA5, <<>>),
      Item(<<>>, <<"currency">>, LinkA1, <<>>),
      Item(<<"B">>, <<"crypto">>, <<>>, <<>>) }

TextTokens == {"lc", "LC", "export", " ", "crypto", "currency"}
SummaryTokens == {"lc", "currency"}

\* Single items without a source field, over every cleaned title and every
\* summary within the bounds.
SingleItems ==
    { Item(<<>>, ttl, lnk, summ) :
        ttl \in {t \in SeqsUpTo(TextTokens, MaxTitle) : IsClean(t)},
        lnk \in {<<>>, LinkWww, LinkArxiv, LinkMention, LinkBad},
        summ \in SeqsUpTo(SummaryTokens, MaxSummary) }

\* fetch_items returns items with pairwise distinct (title, link), and main
\* hands that list to rank_items.
DistinctKeys(its) ==
    \A i, j \in DOMAIN its :
        (its[i].title = its[j].title /\ its[i].link = its[j].link) => i = j

Inputs ==
    {s \in SeqsUpTo(ItemPool, MaxItems) : DistinctKeys(s)}
        \cup {<<it>> : it \in SingleItems}

Limits == (0 - MaxNegLimit)..MaxLimit

\* ------------------------------------------------------- newsletter text
\* Markdown text is a sequence of tokens: "(bullet)" is the bullet character,
\* "w" a run of word characters, "-" a hyphen-minus, " " and "\n" whitespace,
\* "http://u" a URL, "##" a heading marker, "_" an underscore (a word
\* character), "*", "(emoji)", "(endash)", "(emdash)" other symbols, and a
\* heading title such as "Market Outlook" one token.
REQUIRED_MIN_LINKS == 3

\* The tuple enforce_quality loops over.
RequiredHeadings ==
    << "Market Intelligence", "Industry Impact", "Customer Opportunities",
       "Competitive Landscape", "Market Outlook" >>

\* str.lower() on markdown tokens.
LowerMdTok(c) ==
    CASE c = "Market Intelligence" -> "market intelligence"
      [] c = "Industry Impact" -> "industry impact"
      [] c = "Customer Opportunities" -> "customer opportunities"
      [] c = "Competitive Landscape" -> "competitive landscape"
      [] c \in {"Market Outlook", "MARKET OUTLOOK"} -> "market outlook"
      [] OTHER -> c
LowerMd(t) == [i \in DOMAIN t |-> LowerMdTok(t[i])]

HeadingTitles ==
    {RequiredHeadings[i] : i \in DOMAIN RequiredHeadings}
        \cup {"MARKET OUTLOOK"}

\* \s
IsSpaceTok(c) == c \in {" ", "\n"}
\* the token begins with a \w character
IsWordStart(c) == c \in {"w", "http://u", "_"} \cup HeadingTitles

\* Index of the first "-" behind position i, or 0.
FirstHyphen(t, i) ==
    IF \E h \in (i + 1)..Len(t) : t[h] = "-"
    THEN CHOOSE h \in (i + 1)..Len(t) :
            t[h] = "-" /\ \A g \in (i + 1)..(h - 1) : t[g] # "-"
    ELSE 0

\* First position from e on that holds no whitespace (Len(t) + 1 if none).
RECURSIVE SkipSpace(_, _)
SkipSpace(t, e) ==
    IF e <= Len(t) /\ IsSpaceTok(t[e]) THEN SkipSpace(t, e + 1) ELSE e

\* len(re.findall(r"(bullet)[^-]+-\s*\w+", t)), scanning from position i: a
\* bullet matches when the first hyphen behind it is at least one character
\* away and is followed, after optional whitespace, by a word character; the
\* scan resumes behind the match.
RECURSIVE CountAttributions(_, _)
CountAttributions(t, i) ==
    IF i > Len(t) THEN 0
    ELSE LET h == FirstHyphen(t, i)
             e == SkipSpace(t, h + 1)
         IN  IF /\ t[i] = "(bullet)"
                /\ h > i + 1
                /\ e <= Len(t)
                /\ IsWordStart(t[e])
             THEN 1 + CountAttributions(t, e + 1)
             ELSE CountAttributions(t, i + 1)

\* First position from i on that holds whitespace (a heading title has
\* blanks inside), or Len(t) + 1.
RECURSIVE SkipNonSpace(_, _)
SkipNonSpace(t, i) ==
    IF i <= Len(t) /\ ~IsSpaceTok(t[i]) /\ t[i] \notin HeadingTitles
    THEN SkipNonSpace(t, i + 1) ELSE i

\* len(re.findall(r"https?://\S+", t)), scanning from position i.
RECURSIVE CountLinks(_, _)
CountLinks(t, i) ==
    IF i > Len(t) THEN 0
    ELSE IF t[i] = "http://u"
         THEN 1 + CountLinks(t, SkipNonSpace(t, i + 1))
         ELSE CountLinks(t, i + 1)

\* total_sources of enforce_quality
TotalSources(t) == CountAttributions(t, 1) + CountLinks(t, 1)

\* The headings of RequiredHeadings that enforce_quality does not find.
MissingHeadings(t) ==
    {i \in DOMAIN RequiredHeadings :
        ~IsSubstr(<<LowerMdTok(RequiredHeadings[i])>>, LowerMd(t))}

\* Variant: the source threshold one too low.
EnforceQualityLax(t) ==
    /\ TotalSources(t) >= REQUIRED_MIN_LINKS - 1
    /\ MissingHeadings(t) = {}

\* enforce_quality returns (TRUE) or dies (FALSE).
EnforceQuality(t) ==
    IF TotalSources(t) < REQUIRED_MIN_LINKS THEN FALSE
    ELSE MissingHeadings(t) = {}

\* str.strip()
RECURSIVE StripMd(_)
StripMd(t) ==
    IF t = <<>> THEN <<>>
    ELSE IF IsSpaceTok(Head(t)) THEN StripMd(Tail(t))
    ELSE IF IsSpaceTok(t[Len(t)]) THEN StripMd(SubSeq(t, 1, Len(t) - 1))
    ELSE t

\* str.splitlines(): the lines of t, without a last empty line.
RECURSIVE SplitAt(_, _)
SplitAt(t, cur) ==
    IF t = <<>> THEN <<cur>>
    ELSE IF Head(t) = "\n" THEN <<cur>> \o SplitAt(Tail(t), <<>>)
    ELSE SplitAt(Tail(t), Append(cur, Head(t)))

SplitLines(t) ==
    IF t = <<>> THEN <<>>
    ELSE IF t[Len(t)] = "\n" THEN SplitAt(SubSeq(t, 1, Len(t) - 1), <<>>)
    ELSE SplitAt(t, <<>>)

\* "\n".join(lines)
RECURSIVE JoinLines(_)
JoinLines(lines) ==
    IF lines = <<>> THEN <<>>
    ELSE IF Len(lines) = 1 THEN lines[1]
    ELSE lines[1] \o <<"\n">> \o JoinLines(Tail(lines))

\* add_emoji_for_heading on a title: an emoji in front of a known heading.
AddEmojiForHeading(title) ==
    IF \E i \in DOMAIN title : title[i] \in HeadingTitles
    THEN <<"(emoji)", " ">> \o title
    ELSE title

\* One line of add_emojis_to_markdown: HEADER_MD is "#"s, whitespace, title.
EmojiLine(ln) ==
    IF Len(ln) >= 2 /\ ln[1] = "##" /\ IsSpaceTok(ln[2])
    THEN <<"##", " ">> \o AddEmojiForHeading(StripMd(Tail(ln)))
    ELSE ln

AddEmojisToMarkdown(t) ==
    LET lines == SplitLines(t)
    IN  JoinLines([k \in DOMAIN lines |-> EmojiLine(lines[k])])

\* header = "(emoji) *Trade Finance Weekly* (endash) DATE\n\n", DATE an ISO date
Header ==
    << "(emoji)", " ", "*", "w", "*", " ", "(endash)", " ",
       "w", "-", "w", "-", "w", "\n", "\n" >>

\* "\n\n_(emdash) Auto-generated newsletter for Product Marketing review_\n"
Footer ==
    << "\n", "\n", "_", "(emdash)", " ", "w", "-", "w", " ", "w", "_", "\n" >>

\* custom_message_section of write_outputs
CustomMessageSection(custom) ==
    IF custom # <<>> /\ StripMd(custom) # <<>>
    THEN <<"-", "-", "-", "\n", "\n">> \o StripMd(custom)
            \o <<"\n", "\n", "-", "-", "-", "\n", "\n">>
    ELSE <<>>

\* md_full of write_outputs
MdFull(md_body, custom) ==
    Header \o CustomMessageSection(custom) \o AddEmojisToMarkdown(md_body)
        \o Footer

\* Drafts: heading lines followed by body lines.
LineKinds ==
    { <<"(bullet)", " ", "w", " ", "-", " ", "w">>,
      <<"(bullet)", " ", "w">>,
      <<"http://u">>,
      <<"w", "-", "w">>,
      <<"w">> }

HeadingChoices ==
    {RequiredHeadings, <<>>,
     [RequiredHeadings EXCEPT ![5] = "MARKET OUTLOOK"]}
        \cup { SelectSeq(RequiredHeadings, LAMBDA h : h # x) :
                 x \in HeadingTitles \ {"MARKET OUTLOOK"} }

Drafts ==
    { JoinLines([k \in DOMAIN hs |-> <<"##", " ", hs[k]>>] \o body) :
        hs \in HeadingChoices, body \in SeqsUpTo(LineKinds, MaxLines) }

\* Values of the CUSTOM_MESSAGE environment variable.
CustomMessages == {<<>>, <<" ">>, <<"Market Outlook", " ", "http://u">>}

\* ------------------------------------------------------------ fetch_items
\* clean(): strip, then every whitespace run becomes one blank.
RECURSIVE Collapse(_)
Collapse(t) ==
    IF t = <<>> THEN <<>>
    ELSE IF Len(t) >= 2 /\ IsSpaceTok(t[1]) /\ IsSpaceTok(t[2])
         THEN Collapse(Tail(t))
    ELSE IF IsSpaceTok(t[1]) THEN <<" ">> \o Collapse(Tail(t))
    ELSE <<t[1]>> \o Collapse(Tail(t))

Clean(t) == Collapse(StripMd(t))

\* sha_key(title, link): the digest of the parts fed to the hash one after
\* the other; SHA-256 is taken to be collision-free on the strings of the
\* model, so the key is the concatenation itself.
ShaKey(title, link) == title \o link

\* Feed entries as feedparser returns them.
Entry(ttl, lnk) == [title |-> ttl, link |-> lnk]

EntryPool ==
    { Entry(ttl, lnk) :
        ttl \in {<<"n">>, <<"n", "u">>, <<"n", " ">>},
        lnk \in {<<>>, <<"u">>} }

\* The entry lists of one feed: none, one entry, the same entry twice, or the
\* two entries whose title and link concatenate to the same string.
EntryLists ==
    {<<>>} \cup {<<e>> : e \in EntryPool} \cup {<<e, e>> : e \in EntryPool}
        \cup { <<Entry(<<"n">>, <<"u">>), Entry(<<"n", "u">>, <<>>)>> }

\* Entries of sources.yml: with name, without name, without url.
FeedPool ==
    { [url |-> h[1], name |-> h[2], entries |-> es] :
        h \in { << <<"f1">>, <<"A">> >>,
                << <<"f2">>, <<>> >>,
                << <<>>, <<"B">> >> },
        es \in EntryLists }

\* The items one feed contributes (none when the feed has no url).
FeedItems(feed) ==
    IF feed.url = <<>> THEN <<>>
    ELSE [k \in DOMAIN feed.entries |->
            Item(IF feed.name # <<>> THEN feed.name ELSE feed.url,
                 Clean(feed.entries[k].title),
                 feed.entries[k].link,
                 <<>>)]

\* The first loop of fetch_items.
RECURSIVE CollectLoop(_)
CollectLoop(fs) ==
    IF fs = <<>> THEN <<>>
    ELSE FeedItems(Head(fs)) \o CollectLoop(Tail(fs))

\* The de-duplication loop of fetch_items.
RECURSIVE DedupLoop(_, _, _)
DedupLoop(its, seenKeys, uniq) ==
    IF its = <<>> THEN [seen |-> seenKeys, unique |-> uniq]
    ELSE LET k == ShaKey(Head(its).title, Head(its).link)
         IN  IF k \in seenKeys
             THEN DedupLoop(Tail(its), seenKeys, uniq)
             ELSE DedupLoop(Tail(its), seenKeys \cup {k}, Append(uniq, Head(its)))

\* ------------------------------------------------------------------- main
MaxAttempts == 2     \* "for attempt in range(2)"
StatusCodes == {200, 300, 500}

\* ------------------------------------------------------------------- state
VARIABLES
    items,                  \* the argument of rank_items
    limit,                  \* the argument of rank_items
    pc,                     \* position in rank_items
    scored,                 \* list of (score, item)
    selected,               \* list of items
    source_count,           \* dict source -> admitted items
    remaining_needed,       \* limit - len(selected) at the start of backfill
    already_selected_links, \* set of links
    result                  \* the returned list

VARIABLES
    feeds,                  \* fetch_items: the argument, with parsed entries
    fpc,                    \* position in fetch_items
    fetched,                \* fetch_items: the list "items"
    seen,                   \* fetch_items: set of keys
    unique                  \* fetch_items: the returned list

VARIABLES
    rpc,                    \* position in main
    custom_message,         \* CUSTOM_MESSAGE
    attempt,                \* loop variable of the retry loop
    requests_sent,          \* calls of requests.post so far
    exceptions,             \* RequestExceptions raised by requests.post
    status_code,            \* resp.status_code, 0 while there is no resp
    resp_read,              \* resp has been read
    draft,                  \* what summarize_with_openai returned
    slack_written,          \* OUT_SLACK has been written
    exit_code               \* exit status, -1 while running

rankVars == <<items, limit, pc, scored, selected, source_count,
              remaining_needed, already_selected_links, result>>
fetchVars == <<feeds, fpc, fetched, seen, unique>>
runVars == <<rpc, custom_message, attempt, requests_sent, exceptions,
             status_code, resp_read, draft, slack_written, exit_code>>

vars == <<rankVars, fetchVars, runVars>>

\* The parts of the state a specification of one function leaves idle.
RankIdle ==
    /\ items = <<>> /\ limit = 0 /\ pc = "idle" /\ scored = <<>>
    /\ selected = <<>> /\ source_count = <<>> /\ remaining_needed = 0
    /\ already_selected_links = {} /\ result = <<>>

FetchIdle ==
    /\ feeds = <<>> /\ fpc = "idle" /\ fetched = <<>> /\ seen = {}
    /\ unique = <<>>

RunIdle ==
    /\ rpc = "idle" /\ custom_message = <<>> /\ attempt = 0
    /\ requests_sent = 0 /\ exceptions = 0 /\ status_code = 0
    /\ resp_read = FALSE /\ draft = <<>> /\ slack_written = FALSE
    /\ exit_code = -1

Init ==
    /\ items \in Inputs
    /\ limit \in Limits
    /\ pc = "score"
    /\ scored = <<>>
    /\ selected = <<>>
    /\ source_count = <<>>
    /\ remaining_needed = 0
    /\ already_selected_links = {}
    /\ result = <<>>
    /\ FetchIdle
    /\ RunIdle

\* "Score all items"
ScoreItems ==
    /\ pc = "score"
    /\ scored' = ScoreAll(items)
    /\ pc' = "sort"
    /\ UNCHANGED <<items, limit, selected, source_count, remaining_needed,
                   already_selected_links, result>>
    /\ UNCHANGED <<fetchVars, runVars>>

\* "Sort by score first"
SortScored ==
    /\ pc = "sort"
    /\ scored' = SortDesc(scored, <<>>)
    /\ pc' = "first"
    /\ UNCHANGED <<items, limit, selected, source_count, remaining_needed,
                   already_selected_links, result>>
    /\ UNCHANGED <<fetchVars, runVars>>

\* "Apply source diversity selection"
FirstPass ==
    /\ pc = "first"
    /\ LET r == FirstPassLoop(scored, limit, <<>>, <<>>)
       IN  /\ selected' = r.selected
           /\ source_count' = r.source_count
    /\ pc' = "fill"
    /\ UNCHANGED <<items, limit, scored, remaining_needed,
                   already_selected_links, result>>
    /\ UNCHANGED <<fetchVars, runVars>>

\* "If we didn't get enough items due to source limits, fill ..."
Backfill ==
    /\ pc = "fill"
    /\ IF Len(selected) < limit
       THEN LET r == BackfillLoop(scored, limit, selected,
                                  {selected[i].link : i \in DOMAIN selected})
            IN  /\ remaining_needed' = limit - Len(selected)
                /\ selected' = r.selected
                /\ already_selected_links' = r.links
       ELSE UNCHANGED <<remaining_needed, selected, already_selected_links>>
    /\ pc' = "return"
    /\ UNCHANGED <<items, limit, scored, source_count, result>>
    /\ UNCHANGED <<fetchVars, runVars>>

\* "return selected[:limit]"
Return ==
    /\ pc = "return"
    /\ result' = Slice(selected, limit)
    /\ pc' = "done"
    /\ UNCHANGED <<items, limit, scored, selected, source_count,
                   remaining_needed, already_selected_links>>
    /\ UNCHANGED <<fetchVars, runVars>>

Next == ScoreItems \/ SortScored \/ FirstPass \/ Backfill \/ Return

Spec == Init /\ [][Next]_vars

\* ------------------------------------------------------------ fetch_items
InitFetch ==
    /\ feeds \in SeqsUpTo(FeedPool, MaxFeeds)
    /\ fpc = "collect"
    /\ fetched = <<>>
    /\ seen = {}
    /\ unique = <<>>
    /\ RankIdle
    /\ RunIdle

\* "for feed in feeds: ... items.append({...})"
CollectItems ==
    /\ fpc = "collect"
    /\ fetched' = CollectLoop(feeds)
    /\ fpc' = "dedup"
    /\ UNCHANGED <<feeds, seen, unique>>
    /\ UNCHANGED <<rankVars, runVars>>

\* "De-duplicate by (title, link)" and return unique
Deduplicate ==
    /\ fpc = "dedup"
    /\ LET r == DedupLoop(fetched, {}, <<>>)
       IN  /\ seen' = r.seen
           /\ unique' = r.unique
    /\ fpc' = "done"
    /\ UNCHANGED <<feeds, fetched>>
    /\ UNCHANGED <<rankVars, runVars>>

NextFetch == CollectItems \/ Deduplicate

SpecFetch == InitFetch /\ [][NextFetch]_vars

\* ------------------------------------------------------------------- main
InitRun ==
    /\ rpc = "load"
    /\ custom_message \in CustomMessages
    /\ attempt = 0
    /\ requests_sent = 0
    /\ exceptions = 0
    /\ status_code = 0
    /\ resp_read = FALSE
    /\ draft = <<>>
    /\ slack_written = FALSE
    /\ exit_code = -1
    /\ RankIdle
    /\ FetchIdle

\* die(): print and raise SystemExit(1).  What the caller leaves unchanged
\* is stated by the caller.
Die ==
    /\ rpc' = "exit"
    /\ exit_code' = 1

\* load_sources: sources.yml missing, without feeds, or read.
LoadSources ==
    /\ rpc = "load"
    /\ \E outcome \in {"missing", "no feeds", "ok"} :
          IF outcome = "ok"
          THEN rpc' = "fetch" /\ UNCHANGED exit_code
          ELSE Die
    /\ UNCHANGED <<custom_message, attempt, requests_sent, exceptions,
                   status_code, resp_read, draft, slack_written>>
    /\ UNCHANGED <<rankVars, fetchVars>>

\* items = fetch_items(feeds); top = rank_items(items, limit=12)
FetchAndRank ==
    /\ rpc = "fetch"
    /\ \E fetchedAny \in BOOLEAN :
          IF fetchedAny
          THEN rpc' = "apikey" /\ UNCHANGED exit_code
          ELSE Die
    /\ UNCHANGED <<custom_message, attempt, requests_sent, exceptions,
                   status_code, resp_read, draft, slack_written>>
    /\ UNCHANGED <<rankVars, fetchVars>>

\* require_api_key: a RuntimeError is turned into die() at the bottom of
\* the script.
RequireApiKey ==
    /\ rpc = "apikey"
    /\ \E keySet \in BOOLEAN :
          IF keySet
          THEN rpc' = "post" /\ UNCHANGED exit_code
          ELSE Die
    /\ UNCHANGED <<custom_message, attempt, requests_sent, exceptions,
                   status_code, resp_read, draft, slack_written>>
    /\ UNCHANGED <<rankVars, fetchVars>>

\* Variant: a response with an error status is retried like an exception.
PostRetryingErrors ==
    /\ rpc = "post"
    /\ attempt < MaxAttempts
    /\ requests_sent' = requests_sent + 1
    /\ \/ /\ exceptions' = exceptions + 1
          /\ UNCHANGED status_code
          /\ IF attempt = MaxAttempts - 1
             THEN Die /\ UNCHANGED attempt
             ELSE attempt' = attempt + 1 /\ UNCHANGED <<rpc, exit_code>>
       \/ \E st \in StatusCodes :
             IF st >= 300 /\ attempt < MaxAttempts - 1
             THEN /\ status_code' = st
                  /\ attempt' = attempt + 1
                  /\ UNCHANGED <<rpc, exceptions, exit_code>>
             ELSE /\ status_code' = st
                  /\ rpc' = "status"
                  /\ UNCHANGED <<attempt, exceptions, exit_code>>
    /\ UNCHANGED <<custom_message, resp_read, draft, slack_written>>
    /\ UNCHANGED <<rankVars, fetchVars>>

\* One pass of the retry loop: requests.post raises a RequestException (die
\* on the last attempt, else sleep and loop) or returns a response (break).
Post ==
    /\ rpc = "post"
    /\ attempt < MaxAttempts
    /\ requests_sent' = requests_sent + 1
    /\ \/ /\ exceptions' = exceptions + 1
          /\ UNCHANGED status_code
          /\ IF attempt = MaxAttempts - 1
             THEN Die /\ UNCHANGED attempt
             ELSE attempt' = attempt + 1 /\ UNCHANGED <<rpc, exit_code>>
       \/ \E st \in StatusCodes :
             /\ status_code' = st
             /\ rpc' = "status"
             /\ UNCHANGED <<attempt, exceptions, exit_code>>
    /\ UNCHANGED <<custom_message, resp_read, draft, slack_written>>
    /\ UNCHANGED <<rankVars, fetchVars>>

\* "if resp.status_code >= 300: ... die(...)"
CheckStatus ==
    /\ rpc = "status"
    /\ resp_read' = TRUE
    /\ IF status_code >= 300
       THEN Die
       ELSE rpc' = "parse" /\ UNCHANGED exit_code
    /\ UNCHANGED <<custom_message, attempt, requests_sent, exceptions,
                   status_code, draft, slack_written>>
    /\ UNCHANGED <<rankVars, fetchVars>>

\* resp.json() and the content lookup fail (die) or give the content, which
\* is returned stripped.
ParseResponse ==
    /\ rpc = "parse"
    /\ \/ Die /\ UNCHANGED draft
       \/ \E content \in Drafts :
             /\ draft' = StripMd(content)
             /\ rpc' = "write"
             /\ UNCHANGED exit_code
    /\ UNCHANGED <<custom_message, attempt, requests_sent, exceptions,
                   status_code, resp_read, slack_written>>
    /\ UNCHANGED <<rankVars, fetchVars>>

\* write_outputs: assemble md_full, enforce_quality (die), write OUT_SLACK;
\* main returns and the script ends with status 0.
WriteOutputs ==
    /\ rpc = "write"
    /\ IF EnforceQuality(MdFull(draft, custom_message))
       THEN /\ slack_written' = TRUE
            /\ rpc' = "exit"
            /\ exit_code' = 0
       ELSE Die /\ UNCHANGED slack_written
    /\ UNCHANGED <<custom_message, attempt, requests_sent, exceptions,
                   status_code, resp_read, draft>>
    /\ UNCHANGED <<rankVars, fetchVars>>

NextRun ==
    \/ LoadSources \/ FetchAndRank \/ RequireApiKey \/ Post \/ CheckStatus
    \/ ParseResponse \/ WriteOutputs

SpecRun == InitRun /\ [][NextRun]_vars

\* ------------------------------------------------------------- properties
Done == pc = "done"

\* Length of selected when the first pass ended.
FirstLen == IF remaining_needed > 0 THEN limit - remaining_needed ELSE Len(selected)

\* Number of distinct links of the input (de-duplication by link).
DedupCount == Cardinality({items[i].link : i \in DOMAIN items})

\* How many items of s up to position k have the source of s[k].
RankInSource(s, k) ==
    Cardinality({j \in 1..k : SourceOf(s[j]) = SourceOf(s[k])})

\* C1: the result has at most max(0, limit) items; it is empty when the
\* input is empty or limit <= 0.
C1_LengthBound ==
    Done => /\ Len(result) <= Max(0, limit)
            /\ (items = <<>> \/ limit <= 0) => result = <<>>

C1_Witness ==
    Done /\ limit > 0 /\ Len(items) > limit /\ Len(result) = limit

\* C2 (as claimed): for limit >= 0 the result has exactly
\* min(limit, number of distinct links of the input) items.
C2_LengthIsMinLimitDedup ==
    (Done /\ limit >= 0) => Len(result) = Min(limit, DedupCount)

\* C3 (as claimed): no two positions of the result hold the same link,
\* unless that link is empty.
C3_NoSharedLink ==
    Done => \A i, j \in DOMAIN result :
                (i # j /\ result[i].link = result[j].link)
                    => result[i].link = <<>>

\* C4: the first pass admits at most Cap items per source; a source has more
\* than Cap items in the result only if the first pass ended below limit and
\* the backfill ran, and the items beyond the Cap-th of a source lie behind
\* every first-pass item.
C4_CapFirstPass ==
    /\ pc = "fill" =>
          \A k \in DOMAIN selected : RankInSource(selected, k) <= Cap
    /\ Done =>
          \A k \in DOMAIN result :
              RankInSource(result, k) > Cap
                  => /\ remaining_needed > 0
                     /\ FirstLen < limit
                     /\ k > FirstLen
                     /\ \A j \in 1..FirstLen : RankInSource(result, j) <= Cap

C4_Witness ==
    Done /\ \E k \in DOMAIN result : RankInSource(result, k) > Cap

\* Position of an item in a sequence that holds it.
PosIn(s, it) == CHOOSE k \in DOMAIN s : s[k] = it

\* The score the scoring loop stored for an input item.
ComputedScore(it) == (CHOOSE e \in Range(scored) : e.item = it).score

\* Input positions i < j of equal score whose items are both returned.
TiedPair(i, j) ==
    /\ i < j
    /\ ComputedScore(items[i]) = ComputedScore(items[j])
    /\ items[i] \in Range(result)
    /\ items[j] \in Range(result)

\* C5 (as claimed): two returned items of equal score keep their input order.
C5_TiesKeepInputOrder ==
    Done => \A i, j \in DOMAIN items :
                TiedPair(i, j)
                    => PosIn(result, items[i]) < PosIn(result, items[j])

\* C5 (amended): two returned items of equal score that were admitted by the
\* same pass (both by the first pass, or both by the backfill) keep their
\* input order.
C5_TiesKeepInputOrderWithinPass ==
    Done => \A i, j \in DOMAIN items :
                (/\ TiedPair(i, j)
                 /\ (PosIn(result, items[i]) <= FirstLen)
                        <=> (PosIn(result, items[j]) <= FirstLen))
                    => PosIn(result, items[i]) < PosIn(result, items[j])

C5_Witness ==
    Done /\ \E i, j \in DOMAIN items :
                /\ TiedPair(i, j)
                /\ PosIn(result, items[i]) > FirstLen
                /\ PosIn(result, items[j]) > FirstLen

\* C6: no computed score is negative, and an item that matches an avoid
\* keyword and no positive keyword has score 0.
C6_ScoreNonNegative ==
    \A k \in DOMAIN scored :
        /\ scored[k].score >= 0
        /\ (/\ CountIn(AVOID_KEYS, Text(scored[k].item)) >= 1
            /\ CountIn(KEYS, Text(scored[k].item)) = 0)
               => scored[k].score = 0

C6_Witness ==
    \E k \in DOMAIN scored :
        /\ CountIn(AVOID_KEYS, Text(scored[k].item)) >= 1
        /\ CountIn(KEYS, Text(scored[k].item)) = 0
        /\ scored[k].item.link # <<>>

\* C7: rank_items never changes its input, and every item it stores or
\* returns is an input item, field for field.
C7_InputUntouched ==
    /\ [][items' = items]_vars
    /\ [](/\ \A k \in DOMAIN scored : scored[k].item \in Range(items)
          /\ Range(selected) \subseteq Range(items)
          /\ Range(result) \subseteq Range(items))

C7_Witness ==
    Done /\ result # <<>> /\ result # items
         /\ \E k \in DOMAIN result : result[k].title # Lower(result[k].title)

\* The link's host is arxiv.org.
OnArxivDomain(link) ==
    /\ ~UrlparseRaises(link)
    /\ Netloc(link) # <<>>
    /\ Netloc(link)[Len(Netloc(link))] = "arxiv.org"

\* C8 (as claimed): score = m * max(0, P + L - 2N), with m = 0.7 when the
\* link is on the domain arxiv.org and m = 1 otherwise (in tenths: 7, 10).
C8_ScoreFormula ==
    \A k \in DOMAIN scored :
        LET it == scored[k].item
            P == CountIn(KEYS, Text(it))
            L == IF it.link # <<>> THEN 1 ELSE 0
            N == CountIn(AVOID_KEYS, Text(it))
            m == IF OnArxivDomain(it.link) THEN 7 ELSE 10
        IN  scored[k].score = m * Max(0, P + L - 2 * N)

\* All input items have one source and pairwise distinct non-empty links.
SingleSourceDistinctLinks ==
    \A i, j \in DOMAIN items :
        /\ SourceOf(items[i]) = SourceOf(items[j])
        /\ items[i].link # <<>>
        /\ items[i].link = items[j].link => i = j

\* C9: when fewer than limit items are returned, every input item that is
\* not returned has the link of a returned item; n items of one source with
\* distinct non-empty links yield the first min(limit, n) items of the sorted
\* list, those beyond the cap coming from the backfill.
C9_BackfillExhausts ==
    Done =>
      /\ Len(result) < limit =>
            \A i \in DOMAIN items :
                items[i] \notin Range(result)
                    => \E k \in DOMAIN result : result[k].link = items[i].link
      /\ (limit >= 0 /\ SingleSourceDistinctLinks) =>
            /\ Len(result) = Min(limit, Len(items))
            /\ \A k \in DOMAIN result :
                  /\ result[k] = scored[k].item
                  /\ k > Cap => k > FirstLen

C9_Witness ==
    Done /\ Len(result) < limit /\ remaining_needed > 0
         /\ \E i \in DOMAIN items : items[i] \notin Range(result)

\* Input position of the earliest item that attains the maximum score.
EarliestMax ==
    CHOOSE i \in DOMAIN items :
        /\ \A j \in DOMAIN items :
              ComputedScore(items[j]) <= ComputedScore(items[i])
        /\ \A j \in 1..(i - 1) :
              ComputedScore(items[j]) < ComputedScore(items[i])

\* C10: for a non-empty input and limit >= 1 the first returned item is the
\* earliest input item of maximum score.
C10_FirstIsEarliestMax ==
    (Done /\ items # <<>> /\ limit >= 1) =>
        /\ result # <<>>
        /\ result[1] = items[EarliestMax]

C10_Witness ==
    /\ Done /\ items # <<>> /\ limit >= 1
    /\ EarliestMax > 1
    /\ \E j \in DOMAIN items :
          /\ j > EarliestMax
          /\ ComputedScore(items[j]) = ComputedScore(items[EarliestMax])

\* The draft alone passes the two tests of enforce_quality.
DraftQualifies ==
    /\ MissingHeadings(draft) = {}
    /\ TotalSources(draft) >= REQUIRED_MIN_LINKS

AssembledQualifies ==
    LET md_full == MdFull(draft, custom_message)
    IN  /\ MissingHeadings(md_full) = {}
        /\ TotalSources(md_full) >= REQUIRED_MIN_LINKS

SamePair(a, b) == a.title = b.title /\ a.link = b.link

\* The items of its from position i on that have no earlier item of the same
\* (title, link) pair.
RECURSIVE FirstOfEachPair(_, _)
FirstOfEachPair(its, i) ==
    IF i > Len(its) THEN <<>>
    ELSE (IF \E j \in 1..(i - 1) : SamePair(its[j], its[i])
          THEN <<>> ELSE <<its[i]>>) \o FirstOfEachPair(its, i + 1)

\* C12 (as claimed): fetch_items drops an item if and only if an earlier item
\* has the same title and the same link, and keeps the others in fetch order.
C12_DedupByTitleLinkPair ==
    fpc = "done" => unique = FirstOfEachPair(fetched, 1)

\* C13: at most two requests are sent, the second only after the first
\* raised; when both raise the run ends with a non-zero exit and no response
\* is read; a response of status >= 300 is not retried and ends the run with
\* a non-zero exit.
C13_AtMostTwoRequests ==
    /\ requests_sent <= 2
    /\ requests_sent = exceptions + (IF status_code # 0 THEN 1 ELSE 0)
    /\ exceptions = 2 => (rpc = "exit" /\ exit_code # 0 /\ ~resp_read)
    /\ (resp_read /\ status_code >= 300) => (rpc = "exit" /\ exit_code # 0)
    /\ (status_code >= 300 /\ rpc # "exit") => rpc = "status"

C13_Witness ==
    exceptions = 2 /\ requests_sent = 2 /\ rpc = "exit"

====
